---- MODULE Spec2Model ----
(***************************************************************************)
(* Model of the AFSIM script assistant:                                    *)
(*   - server.py      ScriptBuilder (fragment store) and the MCP tools     *)
(*   - newclient.py   MCPClient.chat (one conversational turn)             *)
(* Text is modelled as sequences of one-character strings, so that         *)
(* rstrip, concatenation and join are computed as the code computes them.  *)
(***************************************************************************)
EXTENDS Integers, Sequences, FiniteSets, TLC

VARIABLES
    sections,     \* builder.sections   : kind -> list of stored snippets
    registered,   \* builder.registered : set of (kind, name or snippet)
    calls,        \* history: per valid kind, the add calls since the last clear
    forgotten,    \* history: the identities dropped by the last clear
    last,         \* history: the last builder operation and how it ended
    nops,         \* number of builder operations performed
    messages,     \* MCPClient.messages : the conversation history
    pc,           \* where MCPClient is: "start", "idle" or a suspension point of chat
    choice,       \* response.choices[0] of the first model query of the turn
    pending,      \* tool_call, tool_name and tool_args of the turn
    turn,         \* history: what the current (or last) turn has done so far
    turns         \* number of turns started

bvars == <<sections, registered, calls, forgotten, last, nops>>

cvars == <<messages, pc, choice, pending, turn, turns>>

vars == <<sections, registered, calls, forgotten, last, nops,
          messages, pc, choice, pending, turn, turns>>

----------------------------------------------------------------------------
(* Bounds of the model *)

MaxOps == 3

MaxTurns == 2

----------------------------------------------------------------------------
(* Text helpers *)

NL == "\n"

Whitespace == {" ", "\n", "\t"}

RECURSIVE rstrip(_)
rstrip(s) ==
    IF s = <<>> THEN <<>>
    ELSE IF s[Len(s)] \in Whitespace THEN rstrip(SubSeq(s, 1, Len(s) - 1))
    ELSE s

RECURSIVE join(_, _)
join(sep, list) ==
    IF list = <<>> THEN <<>>
    ELSE IF Len(list) = 1 THEN list[1]
    ELSE list[1] \o sep \o join(sep, Tail(list))

\* an optional str argument: None, or a given text (possibly empty)
None == [given |-> FALSE, text |-> <<>>]

Some(t) == [given |-> TRUE, text |-> t]

\* Python truthiness of `name`: None and "" are both falsy
truthy(name) == name.given /\ name.text # <<>>

----------------------------------------------------------------------------
(* ScriptBuilder *)

ORDER == <<"physical", "aero", "antenna", "sensor", "processor",
           "platform_type", "weapon_effects", "weapon", "platform">>

Kinds == {ORDER[i] : i \in 1..Len(ORDER)}

\* a builder value: the two fields of a ScriptBuilder
Builder(secs, reg) == [sections |-> secs, registered |-> reg]

\* a mutant of reset: the fragments are cleared, the identities are kept
reset_keeps_registered(b) == Builder([k \in Kinds |-> <<>>], b.registered)

\* ScriptBuilder.reset on builder b
reset(b) == Builder([k \in Kinds |-> <<>>], {})

\* ScriptBuilder.__init__: a new object, then reset()
new_builder == reset(Builder(<<>>, {}))

\* a mutant of add_key: the name is ignored, identity is always the content
add_key_content_only(kind, snippet, name) == <<kind, snippet>>

\* a mutant of add_key: the identity leaves out the category
add_key_without_kind(kind, snippet, name) ==
    <<"", IF truthy(name) THEN name.text ELSE snippet>>

add_key(kind, snippet, name) ==
    <<kind, IF truthy(name) THEN name.text ELSE snippet>>

stored_text(snippet) == rstrip(snippet) \o <<NL>>

\* a mutant of add: a snippet whose text the category already holds is dropped
add_dedup_text(b, kind, snippet, name) ==
    LET key == <<kind, IF truthy(name) THEN name.text ELSE snippet>> IN
    IF key \in b.registered THEN [b |-> b, raised |-> "none"]
    ELSE IF kind \notin DOMAIN b.sections
    THEN [b |-> Builder(b.sections, b.registered \cup {key}), raised |-> "KeyError"]
    ELSE IF \E i \in 1..Len(b.sections[kind]) :
                b.sections[kind][i] = rstrip(snippet) \o <<NL>>
    THEN [b |-> Builder(b.sections, b.registered \cup {key}), raised |-> "none"]
    ELSE [b |-> Builder([b.sections EXCEPT ![kind] =
                            Append(@, rstrip(snippet) \o <<NL>>)],
                        b.registered \cup {key}),
          raised |-> "none"]

\* a mutant of add: the new fragment goes to the front of its category
add_prepends(b, kind, snippet, name) ==
    LET key == <<kind, IF truthy(name) THEN name.text ELSE snippet>> IN
    IF key \in b.registered THEN [b |-> b, raised |-> "none"]
    ELSE IF kind \notin DOMAIN b.sections
    THEN [b |-> Builder(b.sections, b.registered \cup {key}), raised |-> "KeyError"]
    ELSE [b |-> Builder([b.sections EXCEPT ![kind] =
                            <<rstrip(snippet) \o <<NL>>>> \o @],
                        b.registered \cup {key}),
          raised |-> "none"]

\* a mutant of add: a category keeps its latest fragment only
add_keeps_latest(b, kind, snippet, name) ==
    LET key == <<kind, IF truthy(name) THEN name.text ELSE snippet>> IN
    IF key \in b.registered THEN [b |-> b, raised |-> "none"]
    ELSE IF kind \notin DOMAIN b.sections
    THEN [b |-> Builder(b.sections, b.registered \cup {key}), raised |-> "KeyError"]
    ELSE [b |-> Builder([b.sections EXCEPT ![kind] = <<rstrip(snippet) \o <<NL>>>>],
                        b.registered \cup {key}),
          raised |-> "none"]

\* a mutant of add: the identity is looked up but never registered
add_never_registers(b, kind, snippet, name) ==
    LET key == <<kind, IF truthy(name) THEN name.text ELSE snippet>> IN
    IF key \in b.registered THEN [b |-> b, raised |-> "none"]
    ELSE IF kind \notin DOMAIN b.sections THEN [b |-> b, raised |-> "KeyError"]
    ELSE [b |-> Builder([b.sections EXCEPT ![kind] =
                            Append(@, rstrip(snippet) \o <<NL>>)],
                        b.registered),
          raised |-> "none"]

\* ScriptBuilder.add on builder b: the builder afterwards and the exception raised
add(b, kind, snippet, name) ==
    LET key == add_key(kind, snippet, name) IN
    IF key \in b.registered
    THEN [b |-> b, raised |-> "none"]
    ELSE IF kind \in DOMAIN b.sections
    THEN [b |-> Builder([b.sections EXCEPT ![kind] = Append(@, stored_text(snippet))],
                        b.registered \cup {key}),
          raised |-> "none"]
    ELSE [b |-> Builder(b.sections, b.registered \cup {key}),
          raised |-> "KeyError"]

RECURSIVE lines_from(_, _)
lines_from(secs, i) ==
    IF i > Len(ORDER) THEN <<>>
    ELSE secs[ORDER[i]] \o lines_from(secs, i + 1)

\* a mutant of render: the categories are visited in sorted-name order
render_sorted(b) ==
    LET sorted == <<"aero", "antenna", "physical", "platform", "platform_type",
                    "processor", "sensor", "weapon", "weapon_effects">>
        F[i \in 1..(Len(sorted) + 1)] ==
            IF i > Len(sorted) THEN <<>> ELSE b.sections[sorted[i]] \o F[i + 1]
    IN  join(<<NL>>, F[1])

\* ScriptBuilder.render on builder b
render(b) == join(<<NL>>, lines_from(b.sections, 1))

\* a mutant of after_render: rendering hands the fragments over and drops them
after_render_drained(b) == Builder([k \in Kinds |-> <<>>], b.registered)

\* line 27: render only reads self.sections; the builder is left as it was
after_render(b) == b

----------------------------------------------------------------------------
(* The MCP tools of server.py, run on the module-level builder *)

GeneratorTools == {"define_radar_signature", "create_radar_sensor",
                   "create_script_processor", "create_platform_type",
                   "create_weapon_effects", "create_weapon", "create_platform"}

ToolNames == GeneratorTools \cup {"finalize_script", "calculate_bmi"}

\* the kind each generator tool passes to builder.add
tool_kind(tool) ==
    CASE tool = "define_radar_signature"  -> "physical"
      [] tool = "create_radar_sensor"     -> "sensor"
      [] tool = "create_script_processor" -> "processor"
      [] tool = "create_platform_type"    -> "platform_type"
      [] tool = "create_weapon_effects"   -> "weapon_effects"
      [] tool = "create_weapon"           -> "weapon"
      [] tool = "create_platform"         -> "platform"

\* the opening keyword of each generator tool's snippet
tool_keyword(tool) ==
    CASE tool = "define_radar_signature"  -> "radar_signature"
      [] tool = "create_radar_sensor"     -> "sensor"
      [] tool = "create_script_processor" -> "processor"
      [] tool = "create_platform_type"    -> "platform_type"
      [] tool = "create_weapon_effects"   -> "weapon_effects"
      [] tool = "create_weapon"           -> "weapon"
      [] tool = "create_platform"         -> "platform"

\* the f-string of a generator tool: keyword, the name argument, the end
\* line, and a trailing newline (the other arguments are held fixed)
tool_snippet(tool, args) ==
    <<tool_keyword(tool), " ">> \o args.name \o <<NL, "end", NL>>

\* the parameters without a default, as far as the model tells them apart
required(tool) ==
    IF tool \in GeneratorTools THEN {"name"}
    ELSE IF tool = "calculate_bmi" THEN {"weight_kg", "height_m"}
    ELSE {}

ToolResult(b, text, isError) == [b |-> b, text |-> text, isError |-> isError]

\* finalize_script(save, reset) on builder b.  Path(...) is called with the
\* Ellipsis object, which raises TypeError before anything is written.
finalize_script(b, save, doReset) ==
    LET script == render(b) IN
    IF save
    THEN ToolResult(b, <<"TypeError">>, TRUE)
    ELSE IF doReset
    THEN ToolResult(Builder([k \in Kinds |-> <<>>], {}), script, FALSE)
    ELSE ToolResult(b, script, FALSE)

\* a generator tool: build the snippet, builder.add(kind, snippet), return it
generate(b, tool, args) ==
    LET snippet == tool_snippet(tool, args) IN
    ToolResult(add(b, tool_kind(tool), snippet, None).b, snippet, FALSE)

\* calculate_bmi(weight_kg, height_m)
calculate_bmi(b, args) ==
    IF args.height_m = 0
    THEN ToolResult(b, <<"ZeroDivisionError">>, TRUE)
    ELSE ToolResult(b, <<"bmi">>, FALSE)

\* one tools/call request served by the FastMCP instance: an unknown tool,
\* arguments that do not fit the signature and an exception raised by the
\* tool all come back as an error result carrying the error text
run_tool(b, tool, args) ==
    IF tool \notin ToolNames THEN ToolResult(b, <<"Unknown tool">>, TRUE)
    ELSE IF ~(required(tool) \subseteq DOMAIN args)
    THEN ToolResult(b, <<"ValidationError">>, TRUE)
    ELSE IF tool \in GeneratorTools THEN generate(b, tool, args)
    ELSE IF tool = "finalize_script"
    THEN finalize_script(b,
                         IF "save" \in DOMAIN args THEN args.save ELSE TRUE,
                         IF "reset" \in DOMAIN args THEN args.reset ELSE FALSE)
    ELSE calculate_bmi(b, args)

----------------------------------------------------------------------------
(* MCPClient *)

\* a history entry; tool_calls and tool_call_id are empty where the dict has none
Message(role, content, tool_calls, id) ==
    [role |-> role, content |-> content, tool_calls |-> tool_calls, tool_call_id |-> id]

SystemPrompt == Message("system", Some(<<"system_prompt">>), <<>>, "")

\* a mutant of json_loads: text that does not parse is taken as no arguments
json_loads_lenient(text) ==
    IF text = "{\"name\": \"r1\"}"
    THEN [raised |-> "none", value |-> [name |-> <<"r", "1">>]]
    ELSE IF text = "{\"name\": \"r2 \"}"
    THEN [raised |-> "none", value |-> [name |-> <<"r", "2", " ">>]]
    ELSE IF text = "{\"save\": false, \"reset\": true}"
    THEN [raised |-> "none", value |-> [save |-> FALSE, reset |-> TRUE]]
    ELSE IF text = "{\"save\": true, \"reset\": true}"
    THEN [raised |-> "none", value |-> [save |-> TRUE, reset |-> TRUE]]
    ELSE IF text = "{\"weight_kg\": 70, \"height_m\": 0}"
    THEN [raised |-> "none", value |-> [weight_kg |-> 70, height_m |-> 0]]
    ELSE [raised |-> "none", value |-> <<>>]

\* json.loads on the argument texts the model may send
json_loads(text) ==
    CASE text = "{\"name\": \"r1\"}" ->
            [raised |-> "none", value |-> [name |-> <<"r", "1">>]]
      [] text = "{\"name\": \"r2 \"}" ->
            [raised |-> "none", value |-> [name |-> <<"r", "2", " ">>]]
      [] text = "{\"save\": false, \"reset\": true}" ->
            [raised |-> "none", value |-> [save |-> FALSE, reset |-> TRUE]]
      [] text = "{\"save\": true, \"reset\": true}" ->
            [raised |-> "none", value |-> [save |-> TRUE, reset |-> TRUE]]
      [] text = "{\"weight_kg\": 70, \"height_m\": 0}" ->
            [raised |-> "none", value |-> [weight_kg |-> 70, height_m |-> 0]]
      [] text = "{}" ->
            [raised |-> "none", value |-> <<>>]
      [] OTHER ->
            [raised |-> "JSONDecodeError", value |-> <<>>]

\* a mutant of uses_tool: any response carrying tool calls takes the tool path
uses_tool_if_any(c) == c.tool_calls # <<>>

\* line 1011: the tool path is taken on finish_reason alone
uses_tool(c) == c.finish_reason = "tool_calls"

\* a mutant of selected_tool_call: the last requested call is honoured
selected_tool_call_last(c) == c.tool_calls[Len(c.tool_calls)]

\* line 1013: content.message.tool_calls[0]
selected_tool_call(c) == c.tool_calls[1]

\* a mutant of followup_offers_tools: the second query repeats tools=self.tools
followup_offers_tools_again == TRUE

\* lines 1029-1032: the follow-up request passes no tools
followup_offers_tools == FALSE

\* lines 1001-1007: the first request passes tools=self.tools
first_query_offers_tools == TRUE

\* content.message.model_dump()
model_dump(c) == Message("assistant", c.content, c.tool_calls, "")

\* a mutant of history_before_tool: the assistant message is appended before
\* the gateway is called
history_before_tool_dumped(msgs, c) == Append(msgs, model_dump(c))

\* lines 1013-1019: nothing is appended between the response and call_tool
history_before_tool(msgs, c) == msgs

\* a mutant of result_text: the text of an error result is dropped
result_text_unless_error(r) == IF r.isError THEN <<>> ELSE r.text

\* line 1024: result.content[0].text, whether or not the result is an error
result_text(r) == r.text

\* a mutant of history_after_tool: the tool message carries no tool_call_id
history_after_tool_no_id(msgs, c, call, text) ==
    msgs \o <<model_dump(c), Message("tool", Some(text), <<>>, "")>>

\* a mutant of history_after_tool: the tool message is left out
history_after_tool_assistant_only(msgs, c, call, text) ==
    msgs \o <<model_dump(c)>>

\* a mutant of history_after_tool: the assistant message replaces the last entry
history_after_tool_overwrite(msgs, c, call, text) ==
    SubSeq(msgs, 1, Len(msgs) - 1)
        \o <<model_dump(c), Message("tool", Some(text), <<>>, call.id)>>

\* lines 1021-1026: the two appends after the gateway call
history_after_tool(msgs, c, call, text) ==
    msgs \o <<model_dump(c), Message("tool", Some(text), <<>>, call.id)>>

\* lines 1035 and 1037: both returns hand back message.content and append nothing
history_after_answer(msgs, c) == msgs

----------------------------------------------------------------------------
(* Inputs *)

AddKinds == {"sensor", "physical", "platform", "turret"}

Snippets == {<<"X">>, <<"X", " ">>, <<"Y">>}

Names == {None, Some(<<>>), Some(<<"X">>), Some(<<"K">>)}

Prompts == {<<"hello">>}

ToolCall(id, name, arguments) == [id |-> id, name |-> name, arguments |-> arguments]

\* what the model may ask for: tool name and argument text
Requests ==
    { <<"define_radar_signature", "{\"name\": \"r1\"}">>,
      <<"create_radar_sensor", "{\"name\": \"r2 \"}">>,
      <<"define_radar_signature", "{}">>,
      <<"create_platform", "{\"name\": ">>,
      <<"finalize_script", "{\"save\": false, \"reset\": true}">>,
      <<"finalize_script", "{\"save\": true, \"reset\": true}">>,
      <<"finalize_script", "{}">>,
      <<"launch_missile", "{}">>,
      <<"calculate_bmi", "{\"weight_kg\": 70, \"height_m\": 0}">> }

\* the second request of a response that carries two
SecondRequests ==
    { <<"create_radar_sensor", "{\"name\": \"r2 \"}">>,
      <<"finalize_script", "{\"save\": false, \"reset\": true}">> }

FirstOfTwo ==
    { <<"define_radar_signature", "{\"name\": \"r1\"}">>,
      <<"create_platform", "{\"name\": ">>,
      <<"launch_missile", "{}">> }

ToolCallLists ==
    { <<ToolCall("call_1", r[1], r[2])>> : r \in Requests }
    \cup { <<ToolCall("call_1", r[1], r[2]), ToolCall("call_2", q[1], q[2])>> :
              r \in FirstOfTwo, q \in SecondRequests }

Choice(finish_reason, content, tool_calls) ==
    [finish_reason |-> finish_reason, content |-> content, tool_calls |-> tool_calls]

\* response.choices[0] of the first query
Choices ==
    { Choice("stop", Some(<<"hi">>), <<>>),
      Choice("stop", None, <<>>),
      Choice("length", Some(<<"hi">>), <<>>),
      Choice("tool_calls", None, <<>>),
      Choice("stop", None, <<ToolCall("call_1", "define_radar_signature", "{\"name\": \"r1\"}")>>) }
    \cup { Choice("tool_calls", None, l) : l \in ToolCallLists }

\* response.choices[0] of the follow-up query
FollowupChoices ==
    { Choice("stop", Some(<<"done">>), <<>>),
      Choice("stop", None, <<>>),
      Choice("tool_calls", None,
             <<ToolCall("call_1", "create_radar_sensor", "{\"name\": \"r2 \"}")>>) }

----------------------------------------------------------------------------
(* State *)

cur == Builder(sections, registered)

NoOp == [op |-> "init", kind |-> "", snippet |-> <<>>, name |-> None,
         fresh |-> FALSE, raised |-> "none", text |-> <<>>, again |-> FALSE]

NoChoice == Choice("", None, <<>>)

NoCall == [call |-> ToolCall("", "", ""), name |-> "", args |-> <<>>]

NoTurn == [base |-> 0, path |-> "none", status |-> "none", error |-> "none",
           returned |-> None, offered |-> <<>>, invoked |-> <<>>,
           before |-> new_builder, answer |-> NoChoice,
           result |-> [text |-> <<>>, isError |-> FALSE]]

Init ==
    /\ sections = new_builder.sections
    /\ registered = new_builder.registered
    /\ calls = [k \in Kinds |-> <<>>]
    /\ forgotten = {}
    /\ last = NoOp
    /\ nops = 0
    /\ messages = <<>>
    /\ pc = "start"
    /\ choice = NoChoice
    /\ pending = NoCall
    /\ turn = NoTurn
    /\ turns = 0

\* builder.add(kind, snippet, name)
Add(kind, snippet, name) ==
    /\ nops < MaxOps
    /\ LET r == add(cur, kind, snippet, name) IN
       /\ sections' = r.b.sections
       /\ registered' = r.b.registered
       /\ last' = [NoOp EXCEPT !.op = "add", !.kind = kind, !.snippet = snippet,
                               !.name = name,
                               !.fresh = (add_key(kind, snippet, name) \notin registered),
                               !.raised = r.raised]
    /\ calls' = IF kind \in Kinds
                THEN [calls EXCEPT ![kind] =
                         Append(@, [snippet |-> snippet, name |-> name,
                                    stored |-> (add(cur, kind, snippet, name).b.sections
                                                  # sections)])]
                ELSE calls
    /\ nops' = nops + 1
    /\ UNCHANGED forgotten
    /\ UNCHANGED cvars

\* builder.reset()
Reset ==
    /\ nops < MaxOps
    /\ sections' = reset(cur).sections
    /\ registered' = reset(cur).registered
    /\ calls' = [k \in Kinds |-> <<>>]
    /\ forgotten' = registered
    /\ last' = [NoOp EXCEPT !.op = "reset"]
    /\ nops' = nops + 1
    /\ UNCHANGED cvars

\* builder.render()
Render ==
    /\ nops < MaxOps
    /\ last' = [NoOp EXCEPT !.op = "render", !.text = render(cur),
                            !.again = (last.op = "render")]
    /\ sections' = after_render(cur).sections
    /\ registered' = after_render(cur).registered
    /\ nops' = nops + 1
    /\ UNCHANGED <<calls, forgotten>>
    /\ UNCHANGED cvars

NextBuilder ==
    \/ \E kind \in AddKinds, snippet \in Snippets, name \in Names : Add(kind, snippet, name)
    \/ Reset
    \/ Render

SpecBuilder == Init /\ [][NextBuilder]_vars

----------------------------------------------------------------------------
(* main: connect_to_server, then chat_loop calling chat once per line *)

\* connect_to_server: the system prompt opens the history
Connect ==
    /\ pc = "start"
    /\ messages' = Append(messages, SystemPrompt)
    /\ pc' = "idle"
    /\ UNCHANGED <<choice, pending, turn, turns>>
    /\ UNCHANGED bvars

\* chat_loop reads "/bye"
Bye ==
    /\ pc = "idle"
    /\ pc' = "exited"
    /\ UNCHANGED <<messages, choice, pending, turn, turns>>
    /\ UNCHANGED bvars

\* a mutant of Raise: the failed request is sent again
Raise_and_retry(error) ==
    /\ pc' = "AwaitingModel"
    /\ turn' = [turn EXCEPT !.status = "raised", !.error = error,
                            !.offered = Append(@, TRUE)]

\* an exception leaves chat; chat_loop and main do not catch it
Raise(error) ==
    /\ pc' = "exited"
    /\ turn' = [turn EXCEPT !.status = "raised", !.error = error]

\* a mutant of Chat: a prompt is taken while the follow-up query is awaited
Chat_while_awaiting(prompt) ==
    /\ pc \in {"idle", "AwaitingFollowup"}
    /\ turns < MaxTurns
    /\ turns' = turns + 1
    /\ messages' = Append(messages, Message("user", Some(prompt), <<>>, ""))
    /\ pc' = "AwaitingModel"
    /\ turn' = [NoTurn EXCEPT !.base = Len(messages) + 1, !.status = "running",
                              !.offered = <<first_query_offers_tools>>,
                              !.before = cur]
    /\ choice' = NoChoice
    /\ pending' = NoCall
    /\ UNCHANGED bvars

\* chat(prompt): lines 997-1007, up to the first await
Chat(prompt) ==
    /\ pc = "idle"
    /\ turns < MaxTurns
    /\ turns' = turns + 1
    /\ messages' = Append(messages, Message("user", Some(prompt), <<>>, ""))
    /\ pc' = "AwaitingModel"
    /\ turn' = [NoTurn EXCEPT !.base = Len(messages) + 1, !.status = "running",
                              !.offered = <<first_query_offers_tools>>,
                              !.before = cur]
    /\ choice' = NoChoice
    /\ pending' = NoCall
    /\ UNCHANGED bvars

\* the first completion arrives: lines 1008-1019 or 1037
ModelReturns(c) ==
    /\ pc = "AwaitingModel"
    /\ choice' = c
    /\ IF uses_tool(c)
       THEN IF c.tool_calls = <<>>
            THEN /\ Raise("IndexError")
                 /\ UNCHANGED <<messages, pending>>
            ELSE LET call   == selected_tool_call(c)
                     parsed == json_loads(call.arguments)
                 IN  IF parsed.raised # "none"
                     THEN /\ Raise(parsed.raised)
                          /\ UNCHANGED <<messages, pending>>
                     ELSE /\ pc' = "ExecutingTool"
                          /\ pending' = [call |-> call, name |-> call.name,
                                         args |-> parsed.value]
                          /\ turn' = [turn EXCEPT !.path = "tool"]
                          /\ messages' = history_before_tool(messages, c)
       ELSE /\ pc' = "idle"
            /\ messages' = history_after_answer(messages, c)
            /\ turn' = [turn EXCEPT !.path = "plain", !.status = "returned",
                                    !.returned = c.content, !.answer = c]
            /\ UNCHANGED pending
    /\ UNCHANGED turns
    /\ UNCHANGED bvars

\* the first completion request fails
ModelRaises ==
    /\ pc = "AwaitingModel"
    /\ Raise("APIError")
    /\ UNCHANGED <<messages, choice, pending, turns>>
    /\ UNCHANGED bvars

\* what the served tool did to the builder, for the history variables
ToolServed(r) ==
    /\ sections' = r.b.sections
    /\ registered' = r.b.registered
    /\ nops' = nops + 1
    /\ IF pending.name \in GeneratorTools /\ ~r.isError
       THEN LET kind    == tool_kind(pending.name)
                snippet == tool_snippet(pending.name, pending.args)
            IN  /\ calls' = [calls EXCEPT ![kind] =
                                Append(@, [snippet |-> snippet, name |-> None,
                                           stored |-> (r.b.sections # sections)])]
                /\ last' = [NoOp EXCEPT !.op = "add", !.kind = kind,
                               !.snippet = snippet,
                               !.fresh = (add_key(kind, snippet, None) \notin registered)]
                /\ UNCHANGED forgotten
       ELSE IF pending.name = "finalize_script" /\ ~r.isError
       THEN /\ last' = [NoOp EXCEPT !.op = "finalize", !.text = r.text]
            /\ IF r.b.registered = {} /\ "reset" \in DOMAIN pending.args
                  /\ pending.args.reset
               THEN calls' = [k \in Kinds |-> <<>>] /\ forgotten' = registered
               ELSE UNCHANGED <<calls, forgotten>>
       ELSE /\ last' = [NoOp EXCEPT !.op = "tool"]
            /\ UNCHANGED <<calls, forgotten>>

\* session.call_tool returns: lines 1019-1032, up to the second await
GatewayReturns ==
    /\ pc = "ExecutingTool"
    /\ LET r == run_tool(cur, pending.name, pending.args) IN
       /\ ToolServed(r)
       /\ messages' = history_after_tool(messages, choice, pending.call,
                                         result_text(r))
       /\ turn' = [turn EXCEPT !.invoked = Append(@, pending.call),
                               !.offered = Append(@, followup_offers_tools),
                               !.result = [text |-> r.text, isError |-> r.isError]]
    /\ pc' = "AwaitingFollowup"
    /\ UNCHANGED <<choice, pending, turns>>

\* session.call_tool fails (the connection to the server is lost), either
\* before the request reached the server or after the tool ran
GatewayRaises(served) ==
    /\ pc = "ExecutingTool"
    /\ IF served
       THEN ToolServed(run_tool(cur, pending.name, pending.args))
       ELSE UNCHANGED bvars
    /\ pc' = "exited"
    /\ turn' = [turn EXCEPT !.status = "raised", !.error = "McpError",
                            !.invoked = Append(@, pending.call)]
    /\ UNCHANGED <<messages, choice, pending, turns>>

\* a mutant of FollowupReturns: a follow-up that asks for a tool is sent again
FollowupReturns_until_stop(c) ==
    /\ pc = "AwaitingFollowup"
    /\ IF uses_tool(c)
       THEN /\ pc' = "AwaitingModel"
            /\ turn' = [turn EXCEPT !.answer = c]
       ELSE /\ pc' = "idle"
            /\ turn' = [turn EXCEPT !.status = "returned", !.returned = c.content,
                                    !.answer = c]
    /\ messages' = history_after_answer(messages, c)
    /\ UNCHANGED <<choice, pending, turns>>
    /\ UNCHANGED bvars

\* the follow-up completion arrives: lines 1033-1035
FollowupReturns(c) ==
    /\ pc = "AwaitingFollowup"
    /\ pc' = "idle"
    /\ messages' = history_after_answer(messages, c)
    /\ turn' = [turn EXCEPT !.status = "returned", !.returned = c.content,
                            !.answer = c]
    /\ UNCHANGED <<choice, pending, turns>>
    /\ UNCHANGED bvars

\* the follow-up completion request fails
FollowupRaises ==
    /\ pc = "AwaitingFollowup"
    /\ Raise("APIError")
    /\ UNCHANGED <<messages, choice, pending, turns>>
    /\ UNCHANGED bvars

Next ==
    \/ Connect
    \/ \E prompt \in Prompts : Chat(prompt)
    \/ \E c \in Choices : ModelReturns(c)
    \/ ModelRaises
    \/ GatewayReturns
    \/ \E served \in BOOLEAN : GatewayRaises(served)
    \/ \E c \in FollowupChoices : FollowupReturns(c)
    \/ FollowupRaises
    \/ Bye

Spec == Init /\ [][Next]_vars

\* the three awaits of chat: each request is answered or fails in the end
ModelAnswers == (\E c \in Choices : ModelReturns(c)) \/ ModelRaises

GatewayAnswers == GatewayReturns \/ (\E served \in BOOLEAN : GatewayRaises(served))

FollowupAnswers == (\E c \in FollowupChoices : FollowupReturns(c)) \/ FollowupRaises

SpecFair ==
    /\ Init /\ [][Next]_vars
    /\ WF_vars(ModelAnswers)
    /\ WF_vars(GatewayAnswers)
    /\ WF_vars(FollowupAnswers)

----------------------------------------------------------------------------
(* Properties of the fragment store, checked under SpecBuilder *)

\* the step just taken was a builder.add call (described by last')
AddStep == nops' = nops + 1 /\ last'.op = "add"

ResetStep == nops' = nops + 1 /\ last'.op = "reset"

\* number of positions at which `needle` occurs in `hay`
Occurrences(needle, hay) ==
    Cardinality({i \in 1..(Len(hay) - Len(needle) + 1) :
                    SubSeq(hay, i, i + Len(needle) - 1) = needle})

\* the fragments one category must hold after the add calls cs, in call order
RECURSIVE Kept(_, _, _)
Kept(kind, cs, seen) ==
    IF cs = <<>> THEN <<>>
    ELSE LET c  == Head(cs)
             id == add_key(kind, c.snippet, c.name)
         IN  IF id \in seen
             THEN Kept(kind, Tail(cs), seen)
             ELSE <<rstrip(c.snippet) \o <<NL>>>> \o Kept(kind, Tail(cs), seen \cup {id})

EnumerationOrder == <<"physical", "aero", "antenna", "sensor", "processor",
                      "platform_type", "weapon_effects", "weapon", "platform">>

CategoryBlocks ==
    SelectSeq([i \in 1..Len(EnumerationOrder) |->
                  join(<<NL>>, Kept(EnumerationOrder[i], calls[EnumerationOrder[i]], {}))],
              LAMBDA blk : blk # <<>>)

\* C1: render() is the stored fragments grouped by category in the fixed
\* enumeration order and, within a category, in insertion order; it is a
\* function of the per-category call sequences alone, so it does not depend
\* on how calls to different categories were interleaved.
C1_RenderByCategoryOrder == render(cur) = join(<<NL>>, CategoryBlocks)

\* a physical fragment was added after sensor and platform fragments and is
\* rendered before them
C1_Witness ==
    /\ last.op = "add" /\ last.kind = "physical" /\ last.fresh
    /\ sections["sensor"] # <<>>
    /\ sections["platform"] # <<>>

\* an earlier add call of this category passed the same explicit key
KeyUsedBefore(kind, name) ==
    /\ kind \in Kinds
    /\ \E i \in 1..Len(calls[kind]) : calls[kind][i].name = name

\* C2 as stated: for any key K, add(cat, content2, key=K) after
\* add(cat, content1, key=K) is a silent no-op.
C2_FirstWriteWinsAnyKey ==
    [][(AddStep /\ last'.name.given /\ KeyUsedBefore(last'.kind, last'.name))
        => /\ sections' = sections
           /\ registered' = registered
           /\ render(Builder(sections', registered')) = render(cur)
           /\ last'.raised = "none"]_vars

\* C2 (amended): for any non-empty key K, add(cat, content2, key=K) after
\* add(cat, content1, key=K) leaves the store and render() as they were
\* and raises nothing.
C2_FirstWriteWins ==
    [][(AddStep /\ truthy(last'.name) /\ KeyUsedBefore(last'.kind, last'.name))
        => /\ sections' = sections
           /\ registered' = registered
           /\ render(Builder(sections', registered')) = render(cur)
           /\ last'.raised = "none"]_vars

\* a second add with the same non-empty key and a different content was made
C2_Witness ==
    /\ last.op = "add" /\ truthy(last.name) /\ last.kind \in Kinds /\ ~last.fresh
    /\ \E i \in 1..(Len(calls[last.kind]) - 1) :
          /\ calls[last.kind][i].name = last.name
          /\ calls[last.kind][i].snippet # last.snippet
          /\ rstrip(calls[last.kind][i].snippet) # rstrip(last.snippet)

\* C7: every add call whose category is outside the enumeration raises.
C7_UnknownCategoryAlwaysRaises ==
    (last.op = "add" /\ last.kind \notin Kinds) => last.raised # "none"

\* C8: an add call with an unknown category changes neither the stored
\* fragments nor the dedup identities.
C8_UnknownCategoryNoMutation ==
    [][(AddStep /\ last'.kind \notin Kinds)
        => (sections' = sections /\ registered' = registered)]_vars

\* the two calls just made: add(cat, X, key=A) then add(cat, X, key=B), A # B,
\* on a store that held neither identity before the first call
TwoKeysSameContent ==
    /\ AddStep
    /\ last.op = "add" /\ last.fresh
    /\ last'.kind = last.kind /\ last.kind \in Kinds
    /\ last'.snippet = last.snippet
    /\ last.name.given /\ last'.name.given
    /\ last'.name # last.name
    /\ \/ add_key(last'.kind, last'.snippet, last'.name) \notin registered
       \/ add_key(last'.kind, last'.snippet, last'.name)
            = add_key(last.kind, last.snippet, last.name)

BothStored ==
    LET k == last'.kind
        t == rstrip(last'.snippet) \o <<NL>>
        n == Len(sections'[k])
    IN  /\ n = Len(sections[k]) + 1
        /\ n >= 2
        /\ sections'[k][n] = t
        /\ sections'[k][n - 1] = t
        /\ Occurrences(t, render(Builder(sections', registered'))) >= 2

\* C9 as stated: for any two different keys A and B.
C9_DistinctAnyKeys == [][TwoKeysSameContent => BothStored]_vars

\* C9 (amended): for any category, content X and two different non-empty
\* keys A and B, after add(cat, X, key=A) and add(cat, X, key=B) on a store
\* holding neither identity, both fragments are stored and both appear in
\* render().
C9_DistinctKeys ==
    [][(TwoKeysSameContent /\ truthy(last.name) /\ truthy(last'.name))
        => BothStored]_vars

\* the same content was stored twice, under two different non-empty keys
C9_Witness ==
    /\ last.op = "add" /\ last.fresh /\ truthy(last.name) /\ last.kind \in Kinds
    /\ LET cs == calls[last.kind] n == Len(cs) IN
       /\ n >= 2
       /\ truthy(cs[n - 1].name) /\ cs[n - 1].name # last.name
       /\ cs[n - 1].snippet = last.snippet
       /\ Len(sections[last.kind]) >= 2
       /\ Occurrences(rstrip(last.snippet) \o <<NL>>, render(cur)) >= 2

\* C10: after reset() render() is empty and no identity is registered; an add
\* of an identity registered before the reset is accepted again; and render()
\* shows only fragments added after the reset.
C10_ResetForgets ==
    [][/\ ResetStep =>
            /\ render(Builder(sections', registered')) = <<>>
            /\ registered' = {}
       /\ (AddStep /\ last'.kind \in Kinds /\ last.op = "reset") =>
            /\ sections'[last'.kind] = <<rstrip(last'.snippet) \o <<NL>>>>
            /\ render(Builder(sections', registered')) = rstrip(last'.snippet) \o <<NL>>
       /\ (AddStep /\ last'.kind \in Kinds
             /\ add_key(last'.kind, last'.snippet, last'.name) \in forgotten
             /\ add_key(last'.kind, last'.snippet, last'.name) \notin registered) =>
            /\ sections'[last'.kind]
                 = Append(sections[last'.kind], rstrip(last'.snippet) \o <<NL>>)
            /\ add_key(last'.kind, last'.snippet, last'.name) \in registered'
       /\ \A k \in Kinds : \A i \in 1..Len(sections'[k]) :
             \E j \in 1..Len(calls'[k]) :
                sections'[k][i] = rstrip(calls'[k][j].snippet) \o <<NL>>]_vars

\* an identity registered before a reset was added again after it and is
\* the only fragment rendered
C10_Witness ==
    /\ last.op = "add" /\ last.fresh /\ last.kind \in Kinds
    /\ add_key(last.kind, last.snippet, last.name) \in forgotten
    /\ add_key(last.kind, last.snippet, last.name) \in registered
    /\ render(cur) = rstrip(last.snippet) \o <<NL>>

----------------------------------------------------------------------------
(* Properties of a chat turn, checked under Spec *)

Returned == turn.status = "returned"

\* C3: a turn whose model response carries no tool request ends by appending
\* the response as an assistant message: one message after the prompt, whose
\* content is the text returned.
C3_PlainTurnAppendsAnswer ==
    (Returned /\ turn.path = "plain") =>
        /\ Len(messages) = turn.base + 1
        /\ messages[Len(messages)].role = "assistant"
        /\ messages[Len(messages)].content = turn.returned

\* C4: a turn on the tool path appends assistant-with-call, tool-result and
\* assistant-followup, in this order, and returns the content of the third.
C4_ToolTurnAppendsThree ==
    (Returned /\ turn.path = "tool") =>
        /\ Len(messages) = turn.base + 3
        /\ messages[turn.base + 1].role = "assistant"
        /\ messages[turn.base + 1].tool_calls # <<>>
        /\ messages[turn.base + 2].role = "tool"
        /\ messages[turn.base + 3].role = "assistant"
        /\ messages[turn.base + 3].content = turn.returned

\* the builder after the first requested call of the turn's response ran
AfterFirstCall ==
    run_tool(turn.before, choice.tool_calls[1].name,
             json_loads(choice.tool_calls[1].arguments).value).b

\* C5: when a response requests several tool calls, the gateway is invoked
\* with the first one only, and the Document is what the first call alone
\* makes of it: the other requests are never executed and have no effect.
C5_OnlyFirstCallExecuted ==
    (turn.path = "tool" /\ Len(choice.tool_calls) >= 2) =>
        /\ turn.invoked \in {<<>>, <<choice.tool_calls[1]>>}
        /\ cur \in {turn.before, AfterFirstCall}
        /\ pc \in {"AwaitingFollowup", "idle"} =>
              /\ turn.invoked = <<choice.tool_calls[1]>>
              /\ cur = AfterFirstCall
              /\ messages[turn.base + 2].tool_call_id = choice.tool_calls[1].id

\* the gateway ran the first of two requests, which changed the Document,
\* and the second (a finalize with reset) did not run
C5_Witness ==
    /\ pc = "AwaitingFollowup"
    /\ Len(choice.tool_calls) = 2
    /\ choice.tool_calls[2].name = "finalize_script"
    /\ cur # turn.before
    /\ sections["physical"] # <<>>

\* C6: the gateway is invoked at most once per turn; the follow-up query
\* offers no tool descriptors; and whatever the follow-up response holds,
\* the turn ends there, returning its content.
C6_AtMostOneToolCall ==
    /\ Len(turn.invoked) <= 1
    /\ Len(turn.offered) <= 2
    /\ Len(turn.offered) = 2 => (turn.offered[1] /\ ~turn.offered[2])
    /\ Len(turn.offered) = 2 => Len(turn.invoked) = 1
    /\ (Returned /\ turn.path = "tool") =>
          /\ pc \in {"idle", "exited"}
          /\ Len(turn.invoked) = 1
          /\ Len(turn.offered) = 2
          /\ turn.returned = turn.answer.content

\* a follow-up response that itself requests a tool call ended the turn
C6_Witness ==
    /\ Returned /\ turn.path = "tool"
    /\ turn.answer.finish_reason = "tool_calls"
    /\ turn.answer.tool_calls # <<>>
    /\ pc = "idle"

\* C11: every tool message directly follows an assistant message that
\* requested a call with the tool message's tool_call_id.
C11_ToolMessageFollowsItsCall ==
    \A i \in 1..Len(messages) :
        messages[i].role = "tool" =>
            /\ i > 1
            /\ messages[i - 1].role = "assistant"
            /\ \E j \in 1..Len(messages[i - 1].tool_calls) :
                  messages[i - 1].tool_calls[j].id = messages[i].tool_call_id

\* the history holds a tool message after an assistant message with two calls
C11_Witness ==
    \E i \in 2..Len(messages) :
        /\ messages[i].role = "tool"
        /\ messages[i].tool_call_id = "call_1"
        /\ Len(messages[i - 1].tool_calls) = 2

\* C12 as stated: when the gateway is called, the assistant message carrying
\* the request is already the last message of the history.
C12_AssistantAppendedBeforeGateway ==
    pc = "ExecutingTool" =>
        /\ messages[Len(messages)].role = "assistant"
        /\ messages[Len(messages)].tool_calls = choice.tool_calls

\* C12 (amended): when the gateway is called the last message is still the
\* turn's prompt; the assistant message carrying the request is appended
\* only after the gateway has returned, directly before the tool message,
\* and not at all when the gateway call fails.
C12_AssistantAppendedAfterGateway ==
    /\ pc = "ExecutingTool" =>
          /\ Len(messages) = turn.base
          /\ messages[Len(messages)].role = "user"
    /\ (turn.path = "tool" /\ pc = "AwaitingFollowup") =>
          /\ Len(messages) = turn.base + 2
          /\ messages[turn.base + 1] = model_dump(choice)
          /\ messages[turn.base + 2].role = "tool"
    /\ (turn.path = "tool" /\ turn.error = "McpError") =>
          Len(messages) = turn.base

\* the gateway call of a turn is in flight
C12_Witness ==
    /\ pc = "ExecutingTool"
    /\ turn.path = "tool"
    /\ choice.tool_calls # <<>>

\* C13: the history before any step is a prefix of the history after it.
C13_HistoryAppendOnly ==
    [][/\ Len(messages') >= Len(messages)
       /\ SubSeq(messages', 1, Len(messages)) = messages]_vars

\* a second turn failed after its tool message had been appended
C13_Witness ==
    /\ turns = 2
    /\ turn.status = "raised"
    /\ Len(messages) = turn.base + 2
    /\ turn.base > 2

\* C14: when the invoked operation fails, the turn goes on: the error text
\* is appended as a tool message with the call's id, the follow-up query is
\* made, and only a failure of that query can still abort the turn.
C14_ToolErrorFoldedIntoHistory ==
    (turn.path = "tool" /\ turn.result.isError) =>
        /\ pc \in {"AwaitingFollowup", "idle", "exited"}
        /\ Len(messages) = turn.base + 2
        /\ messages[turn.base + 2]
             = Message("tool", Some(turn.result.text), <<>>, choice.tool_calls[1].id)
        /\ Len(turn.offered) = 2
        /\ turn.status = "raised" => turn.error = "APIError"
        /\ pc = "idle" => (Returned /\ turn.returned = turn.answer.content)

\* a tool raised ZeroDivisionError and the turn still returned an answer
C14_Witness ==
    /\ turn.path = "tool"
    /\ turn.result.isError
    /\ turn.result.text = <<"ZeroDivisionError">>
    /\ Returned
    /\ pc = "idle"

\* the first requested call names a tool of the server and lacks a
\* parameter that has no default
SchemaViolation ==
    /\ turn.path = "tool"
    /\ pending.name \in ToolNames
    /\ ~(required(pending.name) \subseteq DOMAIN pending.args)

\* C15 as stated: arguments that do not satisfy the schema end the turn with
\* a failure: no follow-up query, no answer, no change of the Document.
C15_MalformedCallEndsTurn ==
    SchemaViolation =>
        /\ cur = turn.before
        /\ pc # "AwaitingFollowup"
        /\ ~Returned
        /\ Len(turn.offered) = 1

ParsableArguments ==
    { "{\"name\": \"r1\"}", "{\"name\": \"r2 \"}", "{}",
      "{\"save\": false, \"reset\": true}",
      "{\"save\": true, \"reset\": true}",
      "{\"weight_kg\": 70, \"height_m\": 0}" }

\* the first requested call of the response carries text that is not JSON
UnparsableArguments ==
    /\ choice.finish_reason = "tool_calls"
    /\ choice.tool_calls # <<>>
    /\ choice.tool_calls[1].arguments \notin ParsableArguments

\* C15 (amended): argument text that is not JSON ends the turn with a
\* failure before the gateway is called, with the Document unchanged and no
\* follow-up; arguments that parse but do not satisfy the schema reach the
\* gateway, which rejects them without running the operation (Document
\* unchanged), and the rejection is answered like any tool error.
C15_MalformedCall ==
    /\ UnparsableArguments =>
          /\ pc = "exited"
          /\ turn.status = "raised" /\ turn.error = "JSONDecodeError"
          /\ turn.invoked = <<>>
          /\ cur = turn.before
          /\ Len(messages) = turn.base
          /\ Len(turn.offered) = 1
    /\ SchemaViolation =>
          /\ cur = turn.before
          /\ pc \in {"AwaitingFollowup", "idle"} =>
                /\ turn.result.isError
                /\ messages[turn.base + 2].content = Some(<<"ValidationError">>)
                /\ Len(turn.offered) = 2

\* a call lacking a required argument was rejected by the gateway and the
\* turn returned the follow-up answer
C15_Witness ==
    /\ SchemaViolation
    /\ Returned
    /\ pc = "idle"
    /\ turn.result.text = <<"ValidationError">>

RaiseStep == turn'.status = "raised" /\ turn.status # "raised"

\* C16: a failing model or gateway call ends the turn and the session at
\* once: nothing is retried, the history stays as it was when the call
\* failed, and a turn makes at most two model queries and one gateway call.
C16_FailureAbortsTurn ==
    [][/\ RaiseStep =>
            /\ messages' = messages
            /\ pc' = "exited"
            /\ turn'.offered = turn.offered
       /\ turn.status = "raised" => FALSE
       /\ Len(turn'.offered) <= 2
       /\ Len(turn'.invoked) <= 1]_vars

\* the follow-up query failed: the assistant and tool messages stay
C16_Witness ==
    /\ turn.status = "raised"
    /\ turn.error = "APIError"
    /\ pc = "exited"
    /\ Len(messages) = turn.base + 2
    /\ messages[Len(messages)].role = "tool"

\* C17: a response with neither text nor a tool call is a valid empty
\* answer: the turn returns without an error and without a gateway call.
C17_EmptyResponseIsAnswer ==
    (choice.finish_reason # "" /\ choice.content = None /\ choice.tool_calls = <<>>) =>
        /\ Returned
        /\ turn.path = "plain"
        /\ turn.returned = None
        /\ turn.invoked = <<>>

----------------------------------------------------------------------------
(* Further properties of the fragment store, checked under SpecBuilder *)

RenderStep == nops' = nops + 1 /\ last'.op = "render"

\* C18: render() changes neither the stored fragments nor the identities,
\* and a render() directly after a render() returns the same text.
C18_RenderIsPure ==
    [][RenderStep =>
          /\ sections' = sections
          /\ registered' = registered
          /\ last.op = "render" => last'.text = last.text]_vars

\* render() was called twice in a row on a store that holds a fragment
C18_Witness ==
    /\ last.op = "render"
    /\ last.again
    /\ last.text # <<>>

\* the calls of one category that appended a fragment, in order
StoredCalls(k) == SelectSeq(calls[k], LAMBDA c : c.stored)

\* the key of a call as the claim words it: the explicit key when one was
\* given, otherwise the content
GivenKey(c) == IF c.name.given THEN c.name.text ELSE c.snippet

\* the key of a call as add forms it: the key when non-empty, otherwise the content
NonEmptyKey(c) == IF c.name.given /\ c.name.text # <<>> THEN c.name.text ELSE c.snippet

\* C19 as stated: no two fragments of one category share a key, the key
\* being the explicit key, or the content when no key was given.
C19_UniqueKeysAsStated ==
    \A k \in Kinds :
        LET cs == StoredCalls(k) IN
        /\ Len(cs) = Len(sections[k])
        /\ \A i, j \in 1..Len(cs) : i # j => GivenKey(cs[i]) # GivenKey(cs[j])

\* C19 (amended): no two fragments of one category share a dedup key, the
\* key being the explicit key when it is non-empty, otherwise the content.
C19_UniqueKeysPerCategory ==
    \A k \in Kinds :
        LET cs == StoredCalls(k) IN
        /\ Len(cs) = Len(sections[k])
        /\ \A i, j \in 1..Len(cs) : i # j => NonEmptyKey(cs[i]) # NonEmptyKey(cs[j])

\* a category holds two fragments and turned a third call down
C19_Witness ==
    \E k \in Kinds :
        /\ Len(sections[k]) = 2
        /\ Len(calls[k]) = 3
        /\ ~calls[k][3].stored

\* C20 as stated: a key (or keyless content) stored under one category is
\* never also stored under a different category.
C20_OneCategoryPerFragment ==
    \A k1, k2 \in Kinds :
        k1 # k2 =>
            \A i \in 1..Len(StoredCalls(k1)), j \in 1..Len(StoredCalls(k2)) :
                GivenKey(StoredCalls(k1)[i]) # GivenKey(StoredCalls(k2)[j])

\* the call just made names a valid category that has not seen its key,
\* while another category holds a fragment stored under that key
KeyHeldElsewhere ==
    /\ AddStep
    /\ last'.kind \in Kinds
    /\ LET c == [name |-> last'.name, snippet |-> last'.snippet] IN
       /\ \A i \in 1..Len(calls[last'.kind]) :
             NonEmptyKey(calls[last'.kind][i]) # NonEmptyKey(c)
       /\ \E k \in Kinds \ {last'.kind} :
             \E i \in 1..Len(calls[k]) :
                /\ calls[k][i].stored
                /\ NonEmptyKey(calls[k][i]) = NonEmptyKey(c)

\* C20 (amended): the dedup identity is per category: a key (or keyless
\* content) stored under one category does not keep the same key or content
\* from being stored under another; each add stores its fragment in the
\* category it names and leaves every other category as it was.
C20_IdentityIsPerCategory ==
    [][KeyHeldElsewhere =>
          /\ sections'[last'.kind]
               = Append(sections[last'.kind], rstrip(last'.snippet) \o <<NL>>)
          /\ \A k \in Kinds \ {last'.kind} : sections'[k] = sections[k]]_vars

\* the same keyless content is stored under two categories
C20_Witness ==
    /\ last.op = "add" /\ last.fresh /\ ~last.name.given
    /\ last.kind = "physical"
    /\ \E i \in 1..Len(sections["sensor"]) :
          sections["sensor"][i] = sections["physical"][Len(sections["physical"])]
    /\ \E i \in 1..Len(calls["sensor"]) :
          /\ calls["sensor"][i].stored
          /\ calls["sensor"][i].snippet = last.snippet
          /\ ~calls["sensor"][i].name.given

----------------------------------------------------------------------------
(* Further properties of a chat turn, checked under Spec *)

\* the gateway has just served finalize_script for the running turn
FinalizeServed ==
    /\ pc = "AwaitingFollowup"
    /\ pending.name = "finalize_script"

\* C21: finalize returns the current render; with the reset flag the
\* Document is empty afterwards, without it the Document is unchanged,
\* whatever the value of the save flag.
C21_FinalizeReturnsRender ==
    FinalizeServed =>
        LET flag == "reset" \in DOMAIN pending.args /\ pending.args.reset IN
        /\ ~turn.result.isError
        /\ turn.result.text = render(turn.before)
        /\ cur = IF flag THEN new_builder ELSE turn.before

\* C22: a turn starts only when no turn is in progress, and every message
\* appended while a turn runs belongs to that turn: no prompt of another
\* turn enters the history between a turn's first and last message.
C22_TurnsDoNotInterleave ==
    [][/\ turns' # turns => turn.status # "running" /\ pc = "idle"
       /\ turns' = turns =>
             /\ Len(messages') >= Len(messages)
             /\ \A i \in (Len(messages) + 1)..Len(messages') :
                   messages'[i].role # "user"
       /\ turn'.status = "running" =>
             \A i \in (turn'.base + 1)..Len(messages') : messages'[i].role # "user"]_vars

\* a second turn is on the tool path behind a first turn that took it too
C22_Witness ==
    /\ turns = 2
    /\ pc = "AwaitingFollowup"
    /\ Len(messages) = 7
    /\ messages[2].role = "user" /\ messages[4].role = "tool"
    /\ messages[5].role = "user" /\ messages[7].role = "tool"

\* C23: the tool path is taken exactly when the response carries a
\* tool-call request, and no response makes the turn fail while the path is
\* selected.
C23_PathFollowsRequest ==
    choice.finish_reason # "" =>
        IF choice.tool_calls # <<>>
        THEN turn.path = "tool" \/ turn.error = "JSONDecodeError"
        ELSE turn.path = "plain" /\ turn.error = "none"

\* C25: every turn started by chat ends, in one returned answer or one
\* failure, after at most two model queries and one gateway call.
C25_TurnTerminates ==
    /\ [](Len(turn.offered) <= 2 /\ Len(turn.invoked) <= 1)
    /\ [](turn.status = "running" =>
             pc \in {"AwaitingModel", "ExecutingTool", "AwaitingFollowup"})
    /\ (turn.status = "running") ~> (turn.status \in {"returned", "raised"})

\* a turn that queried the model twice and called the gateway once has returned
C25_Witness ==
    /\ turn.status = "returned"
    /\ pc = "idle"
    /\ Len(turn.offered) = 2
    /\ Len(turn.invoked) = 1

\* C26: every assistant message that carries a tool-call request is directly
\* followed by the tool message for that call, also in a history left by a
\* turn that failed.
C26_CallAndResultTogether ==
    \A i \in 1..Len(messages) :
        (messages[i].role = "assistant" /\ messages[i].tool_calls # <<>>) =>
            /\ i < Len(messages)
            /\ messages[i + 1].role = "tool"
            /\ messages[i + 1].tool_call_id = messages[i].tool_calls[1].id

\* a turn failed at the gateway behind a turn whose call and result are in
\* the history: the failed turn left its prompt only
C26_Witness ==
    /\ turn.error = "McpError"
    /\ pc = "exited"
    /\ Len(messages) = 5
    /\ messages[3].role = "assistant" /\ messages[3].tool_calls # <<>>
    /\ messages[5].role = "user"

----------------------------------------------------------------------------
(* Further properties of add, checked under SpecBuilder *)

\* the call just made (described by last') repeats an identity that a call
\* since the last reset already brought to its category
SeenSinceReset ==
    \E i \in 1..Len(calls[last'.kind]) :
        NonEmptyKey(calls[last'.kind][i])
            = NonEmptyKey([name |-> last'.name, snippet |-> last'.snippet])

\* C24: add with a valid category is discarded exactly when its identity
\* was registered since the last reset; otherwise it appends one fragment at
\* the end of its category and changes no other category.
C24_AddDiscardsIffRegistered ==
    [][(AddStep /\ last'.kind \in Kinds) =>
          IF SeenSinceReset
          THEN sections' = sections /\ registered' = registered
          ELSE /\ sections'[last'.kind]
                    = Append(sections[last'.kind], rstrip(last'.snippet) \o <<NL>>)
               /\ \A k \in Kinds \ {last'.kind} : sections'[k] = sections[k]]_vars

\* an identity was stored once and discarded twice
C24_Witness ==
    /\ last.op = "add" /\ ~last.fresh /\ last.kind \in Kinds
    /\ Len(calls[last.kind]) = 3
    /\ Len(sections[last.kind]) = 1

IsPrefix(s, t) == Len(s) <= Len(t) /\ SubSeq(t, 1, Len(s)) = s

\* C27: between two resets the Document only grows: after an add or a
\* render every category's earlier sequence is a prefix of its new one.
C27_DocumentOnlyGrows ==
    [][(AddStep \/ RenderStep) =>
          \A k \in Kinds : IsPrefix(sections[k], sections'[k])]_vars

\* a fragment rendered earlier is followed by a later one of its category
C27_Witness ==
    /\ last.op = "render"
    /\ nops = 3
    /\ \E k \in Kinds :
          /\ Len(sections[k]) = 2
          /\ sections[k][1] # sections[k][2]

\* every add since the last reset was keyless
AllKeyless ==
    \A k \in Kinds : \A i \in 1..Len(calls[k]) : ~calls[k][i].name.given

\* C28: when every add is keyless, the fragment texts stored in one
\* category are pairwise distinct.
C28_KeylessFragmentsDistinct ==
    AllKeyless =>
        \A k \in Kinds :
            \A i, j \in 1..Len(sections[k]) :
                i # j => sections[k][i] # sections[k][j]

====
